---- MODULE Spec2Model ----
(***************************************************************************)
(* Model of spawn_user_task (src/src/task.rs): the pre-unmap pass over    *)
(* the user stack range, the run/trap dispatch loop and the demand-paging  *)
(* fault handler, together with the validation payload                     *)
(* (src/payload/src/main.rs) as one of the user programs that may run.     *)
(***************************************************************************)
EXTENDS Integers, Naturals, Sequences, FiniteSets, TLC

\* ------------------------------------------------------------ bounds
\* Virtual pages 0 .. NumPages-1 form the modelled user address space.
NumPages == 4
\* Largest length of the pool of pre-allocated frames handed to the task.
MaxPool == 3
\* Largest number of Syscall traps of one task that the model follows.
MaxSyscalls == 2

\* ------------------------------------------------------------ constants
PAGE_SIZE_4K == 4096
\* "li a7, 93": the number of the exit system call
SYS_EXIT == 93
\* Syscall numbers user code issues: exit and one other call.
SysNos == {SYS_EXIT, SYS_EXIT + 1}

Pages == 0 .. (NumPages - 1)
\* First and last byte of every page: the addresses user code touches.
Offsets == {0, PAGE_SIZE_4K - 1}
Addrs == {p * PAGE_SIZE_4K + o : p \in Pages, o \in Offsets}

\* Physical frames: the pool draws its frames from 1 .. MaxPool; StaleFrame is
\* a frame outside the pool that upstream provisioning may have mapped.
StaleFrame == MaxPool + 1
\* Identifiers of page-table roots.
RootIds == {"rootA", "rootB"}

READ == "READ"
WRITE == "WRITE"
EXECUTE == "EXECUTE"
USER == "USER"
AccessKinds == {READ, WRITE, EXECUTE}

\* the permission with USER left out
MapFlags_nouser == {"READ", "WRITE"}

\* MappingFlags::READ | MappingFlags::WRITE | MappingFlags::USER
MapFlags == {READ, WRITE, USER}
\* Flags of entries that exist before the task is spawned.
UpstreamFlags == {READ, WRITE, EXECUTE, USER}

NoEntry == [present |-> FALSE, paddr |-> 0, flags |-> {}]
Entry(paddr, flags) == [present |-> TRUE, paddr |-> paddr, flags |-> flags]

None == [some |-> FALSE]
Some(code) == [some |-> TRUE, code |-> code]

\* Exit codes a user program may pass to SYS_EXIT.
ExitCodes == {-1, 0}

\* Stack decrement of the payload before its store, per architecture:
\* riscv (addi sp, sp, -4), aarch64 (sub sp, sp, #16), x86_64 (push rax),
\* loongarch64 (addi.d $sp, $sp, -8).
PayloadDec == [riscv |-> 4, aarch64 |-> 16, x86_64 |-> 8, loongarch64 |-> 8]
Archs == DOMAIN PayloadDec

VARIABLES
    uspace,          \* page table of the address space: page -> entry
    uspace_root,     \* root identifier of the address space
    page_table_root, \* root recorded on the task context, or "none"
    ustack_top,      \* top of the lazy stack range (exclusive)
    ustack_vaddr,    \* base of the lazy stack range
    stack_pages,     \* phys_pages of the pool, a sequence of frames
    pc,              \* position of the task
    i,               \* loop variable of the pre-unmap pass
    ptmod,           \* a modify handle of the page table is held
    reason,          \* what the last run() returned
    aligned_uctx,    \* user context: sp, syscall number, first argument
    exit_code,       \* <<code>> once axtask::exit(code) is called, <<>> before
    prog,            \* user program: "payload" or "any"
    arch,            \* target architecture of the payload
    upc,             \* position of the payload
    entered,         \* run() has been called at least once
    mapLog,          \* map calls so far, in order
    unmapLog,        \* unmap calls so far, in order
    sysTraps,        \* Syscall traps so far
    gwCalls,         \* calls of the syscall gateway so far
    events,          \* event trace of the task running the payload
    kstack_sp,       \* kernel stack position under which aligned_uctx is placed
    uctx_addr        \* address of aligned_uctx on the kernel stack

vars == <<uspace, uspace_root, page_table_root, ustack_top, ustack_vaddr,
          stack_pages, pc, i, ptmod, reason, aligned_uctx, exit_code, prog, arch, upc, entered, mapLog, unmapLog,
          sysTraps, gwCalls, events, kstack_sp, uctx_addr>>

kvars == <<kstack_sp, uctx_addr>>

\* ------------------------------------------------------------ helpers
\* align_down_4k that rounds to the next page boundary instead
align_down_4k_up(a) == a - (a % PAGE_SIZE_4K) + PAGE_SIZE_4K

\* VirtAddr::align_down_4k
align_down_4k(a) == a - (a % PAGE_SIZE_4K)

PageOf(a) == a \div PAGE_SIZE_4K

\* #[repr(C, align(16))]
UCTX_ALIGN == 16
\* Size of a kernel stack slot: the alignment a UserContext has by itself.
KSTACK_SLOT == 8
\* Kernel stack positions, left by whatever the stack holds above the local:
\* one a multiple of 16 and one not.
KStackTops == {2 * KSTACK_SLOT, 3 * KSTACK_SLOT}

\* the alignment of a bare UserContext, without the wrapper
uctx_align_bare == KSTACK_SLOT

\* Alignment of AlignedUserContext; the context is its only field, at offset 0.
uctx_align == UCTX_ALIGN

\* A local is placed at the highest address not above the stack position
\* that is a multiple of the alignment of its type.
PlaceLocal(sp, align) == sp - (sp % align)

\* the page count with the page at the top of the range counted in
n_pages_extra == ((ustack_top - ustack_vaddr) \div PAGE_SIZE_4K) + 1

\* the page count with the last page of the range left out
n_pages_short == ((ustack_top - ustack_vaddr) \div PAGE_SIZE_4K) - 1

\* (ustack_top - ustack_vaddr) / PAGE_SIZE_4K
n_pages == (ustack_top - ustack_vaddr) \div PAGE_SIZE_4K

\* the range check with the base of the range taken as outside
InStackRange_gt(vaddr) == vaddr > ustack_vaddr /\ vaddr < ustack_top

\* the range check with the top of the range taken as inside
InStackRange_le(vaddr) == vaddr >= ustack_vaddr /\ vaddr <= ustack_top

\* vaddr >= ustack_vaddr && vaddr < ustack_top
InStackRange(vaddr) == vaddr >= ustack_vaddr /\ vaddr < ustack_top

\* the page index taken from address 0 instead of from the base
page_idx_abs(aligned_va) == aligned_va \div PAGE_SIZE_4K

\* (aligned_va - ustack_vaddr) / page_size
page_idx(aligned_va) == (aligned_va - ustack_vaddr) \div PAGE_SIZE_4K

\* Pages of the stack range the caller passes.
RangePages ==
    {p \in Pages : ustack_vaddr <= p * PAGE_SIZE_4K /\ p * PAGE_SIZE_4K < ustack_top}

\* The MMU: an access of the given kind from user mode to addr traps unless
\* the page has an entry whose flags allow it.
Faults(pt, addr, kind) ==
    IF PageOf(addr) \in Pages
      THEN ~pt[PageOf(addr)].present \/ ~({kind, USER} \subseteq pt[PageOf(addr)].flags)
      ELSE TRUE

\* PageTable unmap of one 4K page: Ok and the entry cleared if present,
\* Err(NotMapped) and nothing changed otherwise.
UnmapOk(pt, va) == va % PAGE_SIZE_4K = 0 /\ PageOf(va) \in Pages /\ pt[PageOf(va)].present
UnmapPt(pt, va) == IF UnmapOk(pt, va) THEN [pt EXCEPT ![PageOf(va)] = NoEntry] ELSE pt

\* PageTable map of one 4K page: Err(AlreadyMapped) if the entry is in use,
\* Err(NoMemory) if a page-table frame cannot be allocated (alloc = FALSE).
MapOk(pt, va, alloc) ==
    va % PAGE_SIZE_4K = 0 /\ PageOf(va) \in Pages /\ ~pt[PageOf(va)].present /\ alloc
MapPt(pt, va, paddr, flags, alloc) ==
    IF MapOk(pt, va, alloc) THEN [pt EXCEPT ![PageOf(va)] = Entry(paddr, flags)] ELSE pt

\* syscall::handle_syscall: SYS_EXIT ends the task with its first argument,
\* any other call is served and the task goes on.
handle_syscall(uctx) == IF uctx.sysno = SYS_EXIT THEN Some(uctx.a0) ELSE None

Log(ev) == IF prog = "payload" THEN Append(events, ev) ELSE events

\* ------------------------------------------------------------ initial states
\* Pools of n distinct frames, n <= MaxPool, in ascending or descending order
\* of physical address.
Pools ==
    UNION {{[k \in 1 .. n |-> k], [k \in 1 .. n |-> MaxPool + 1 - k]} : n \in 0 .. MaxPool}

\* What upstream provisioning may have mapped before the task is spawned.
UpstreamMaps(range) ==
    {{}, range, Pages \ range, Pages, {CHOOSE p \in range : TRUE}, {0}}

NoReason == [kind |-> "None"]

Init ==
    /\ \E b \in 1 .. (NumPages - 2), t \in 2 .. (NumPages - 1) :
          /\ b < t
          /\ ustack_vaddr = b * PAGE_SIZE_4K
          /\ ustack_top = t * PAGE_SIZE_4K
    /\ stack_pages \in Pools
    /\ \E mapped \in UpstreamMaps(RangePages) :
          uspace = [p \in Pages |->
                       IF p \in mapped THEN Entry(StaleFrame, UpstreamFlags) ELSE NoEntry]
    /\ prog \in {"payload", "any"}
    /\ arch \in (IF prog = "payload" THEN Archs ELSE {"riscv"})
    /\ uspace_root \in RootIds
    /\ page_table_root = "none"
    /\ pc = "call"
    /\ i = 0
    /\ ptmod = FALSE
    /\ reason = NoReason
    /\ aligned_uctx = [sp |-> 0, sysno |-> 0, a0 |-> 0]
    /\ exit_code = <<>>
    /\ upc = "store"
    /\ entered = FALSE
    /\ mapLog = <<>>
    /\ unmapLog = <<>>
    /\ sysTraps = 0
    /\ gwCalls = 0
    /\ events = <<>>
    /\ kstack_sp = 0
    /\ uctx_addr = 0

\* ------------------------------------------------------------ bootstrap
\* spawn_user_task with the call of set_page_table_root left out
SpawnUserTask_noroot ==
    /\ pc = "call"
    /\ pc' = "ready"
    /\ UNCHANGED <<uspace, uspace_root, page_table_root, ustack_top, ustack_vaddr,
                   stack_pages, i, ptmod, reason, aligned_uctx, exit_code, prog, arch,
                   upc, entered, mapLog, unmapLog, sysTraps, gwCalls, events>>
    /\ UNCHANGED kvars

\* spawn_user_task up to axtask::spawn_task: the root of the address space
\* is read and set on the task context, the body is not run yet.
SpawnUserTask ==
    /\ pc = "call"
    /\ page_table_root' = uspace_root
    /\ pc' = "ready"
    /\ UNCHANGED <<uspace, uspace_root, ustack_top, ustack_vaddr, stack_pages, i,
                   ptmod, reason, aligned_uctx, exit_code, prog, arch, upc, entered,
                   mapLog, unmapLog, sysTraps, gwCalls, events>>
    /\ UNCHANGED kvars

\* The body starts: uspace.page_table_mut().modify() and the loop is set up.
TaskBegin ==
    /\ pc = "ready"
    /\ ptmod' = TRUE
    /\ i' = 0
    /\ pc' = "unmap"
    /\ UNCHANGED <<uspace, uspace_root, page_table_root, ustack_top, ustack_vaddr,
                   stack_pages, reason, aligned_uctx, exit_code, prog, arch, upc,
                   entered, mapLog, unmapLog, sysTraps, gwCalls, events>>
    /\ UNCHANGED kvars

\* the iteration with the result of unmap unwrapped instead of dropped
UnmapStep_unwrap ==
    /\ pc = "unmap"
    /\ i < n_pages
    /\ LET va == ustack_vaddr + i * PAGE_SIZE_4K IN
          /\ uspace' = UnmapPt(uspace, va)
          /\ unmapLog' = Append(unmapLog, [va |-> va, ok |-> UnmapOk(uspace, va)])
          /\ pc' = IF UnmapOk(uspace, va) THEN pc ELSE "panicked"
    /\ i' = i + 1
    /\ UNCHANGED <<uspace_root, page_table_root, ustack_top, ustack_vaddr, stack_pages,
                   ptmod, reason, aligned_uctx, exit_code, prog, arch, upc, entered,
                   mapLog, sysTraps, gwCalls, events>>
    /\ UNCHANGED kvars

\* One iteration of "for i in 0..n_pages": the result of unmap is dropped.
UnmapStep ==
    /\ pc = "unmap"
    /\ i < n_pages
    /\ LET va == ustack_vaddr + i * PAGE_SIZE_4K IN
          /\ uspace' = UnmapPt(uspace, va)
          /\ unmapLog' = Append(unmapLog, [va |-> va, ok |-> UnmapOk(uspace, va)])
    /\ i' = i + 1
    /\ UNCHANGED <<uspace_root, page_table_root, ustack_top, ustack_vaddr, stack_pages,
                   pc, ptmod, reason, aligned_uctx, exit_code, prog, arch, upc, entered,
                   mapLog, sysTraps, gwCalls, events>>
    /\ UNCHANGED kvars

\* the end of the pass with the handle kept alive past the block
UnmapEnd_keep ==
    /\ pc = "unmap"
    /\ ~(i < n_pages)
    /\ ptmod' = ptmod
    /\ aligned_uctx' = [sp |-> ustack_top, sysno |-> 0, a0 |-> 0]
    /\ \E sp \in KStackTops :
          /\ kstack_sp' = sp
          /\ uctx_addr' = PlaceLocal(sp, uctx_align)
    /\ pc' = "loop"
    /\ UNCHANGED <<uspace, uspace_root, page_table_root, ustack_top, ustack_vaddr,
                   stack_pages, i, reason, exit_code, prog, arch, upc, entered, mapLog,
                   unmapLog, sysTraps, gwCalls, events>>

\* End of the pass: the handle is dropped at the end of the block and the
\* user context is built with UserContext::new(entry, sp, 0).
UnmapEnd ==
    /\ pc = "unmap"
    /\ ~(i < n_pages)
    /\ ptmod' = FALSE
    /\ aligned_uctx' = [sp |-> ustack_top, sysno |-> 0, a0 |-> 0]
    /\ \E sp \in KStackTops :
          /\ kstack_sp' = sp
          /\ uctx_addr' = PlaceLocal(sp, uctx_align)
    /\ pc' = "loop"
    /\ UNCHANGED <<uspace, uspace_root, page_table_root, ustack_top, ustack_vaddr,
                   stack_pages, i, reason, exit_code, prog, arch, upc, entered, mapLog,
                   unmapLog, sysTraps, gwCalls, events>>

\* ------------------------------------------------------------ user mode
\* aligned_uctx.0.run(): control passes to user mode.
Run ==
    /\ pc = "loop"
    /\ pc' = "user"
    /\ entered' = TRUE
    /\ events' = Log(<<"run">>)
    /\ UNCHANGED <<uspace, uspace_root, page_table_root, ustack_top, ustack_vaddr,
                   stack_pages, i, ptmod, reason, aligned_uctx, exit_code, prog, arch,
                   upc, mapLog, unmapLog, sysTraps, gwCalls>>
    /\ UNCHANGED kvars

\* run() returns with the given reason.
Trap(r, ev) ==
    /\ pc' = "match"
    /\ reason' = r
    /\ events' = Log(ev)

\* An arbitrary user program touches an address and the access traps.
\* Accesses that the page table allows do not return to the kernel.
UserFault ==
    /\ pc = "user" /\ prog = "any"
    /\ \E a \in Addrs, k \in AccessKinds :
          /\ Faults(uspace, a, k)
          /\ Trap([kind |-> "PageFault", vaddr |-> a, flags |-> k], <<"fault", a>>)
    /\ UNCHANGED <<uspace, uspace_root, page_table_root, ustack_top, ustack_vaddr,
                   stack_pages, i, ptmod, aligned_uctx, exit_code, prog, arch, upc,
                   entered, mapLog, unmapLog, sysTraps, gwCalls>>
    /\ UNCHANGED kvars

\* An arbitrary user program issues a system call.
UserSyscall ==
    /\ pc = "user" /\ prog = "any"
    /\ sysTraps < MaxSyscalls
    /\ \E n \in SysNos, c \in ExitCodes :
          aligned_uctx' = [aligned_uctx EXCEPT !.sysno = n, !.a0 = c]
    /\ sysTraps' = sysTraps + 1
    /\ Trap([kind |-> "Syscall"], <<"syscall">>)
    /\ UNCHANGED <<uspace, uspace_root, page_table_root, ustack_top, ustack_vaddr,
                   stack_pages, i, ptmod, exit_code, prog, arch, upc, entered, mapLog,
                   unmapLog, gwCalls>>
    /\ UNCHANGED kvars

\* An arbitrary user program raises any other trap.
UserOther ==
    /\ pc = "user" /\ prog = "any"
    /\ Trap([kind |-> "Other"], <<"other">>)
    /\ UNCHANGED <<uspace, uspace_root, page_table_root, ustack_top, ustack_vaddr,
                   stack_pages, i, ptmod, aligned_uctx, exit_code, prog, arch, upc,
                   entered, mapLog, unmapLog, sysTraps, gwCalls>>
    /\ UNCHANGED kvars

\* The payload moves sp down and stores to (sp): the store traps while its
\* page has no entry and completes once it has.
PayloadStore ==
    /\ pc = "user" /\ prog = "payload" /\ upc = "store"
    /\ LET a == aligned_uctx.sp - PayloadDec[arch] IN
          IF Faults(uspace, a, WRITE)
            THEN /\ Trap([kind |-> "PageFault", vaddr |-> a, flags |-> WRITE],
                         <<"fault", a>>)
                 /\ UNCHANGED <<aligned_uctx, upc>>
            ELSE /\ aligned_uctx' = [aligned_uctx EXCEPT !.sp = a]
                 /\ upc' = "exit"
                 /\ UNCHANGED <<pc, reason, events>>
    /\ UNCHANGED <<uspace, uspace_root, page_table_root, ustack_top, ustack_vaddr,
                   stack_pages, i, ptmod, exit_code, prog, arch, entered, mapLog,
                   unmapLog, sysTraps, gwCalls>>
    /\ UNCHANGED kvars

\* The payload loads 93 into the syscall register and traps; the first
\* argument register still holds the 0 it was entered with.
PayloadExit ==
    /\ pc = "user" /\ prog = "payload" /\ upc = "exit"
    /\ aligned_uctx' = [aligned_uctx EXCEPT !.sysno = SYS_EXIT]
    /\ upc' = "done"
    /\ sysTraps' = sysTraps + 1
    /\ Trap([kind |-> "Syscall"], <<"syscall">>)
    /\ UNCHANGED <<uspace, uspace_root, page_table_root, ustack_top, ustack_vaddr,
                   stack_pages, i, ptmod, exit_code, prog, arch, entered, mapLog,
                   unmapLog, gwCalls>>
    /\ UNCHANGED kvars

\* ------------------------------------------------------------ dispatch
\* the body returning where it should call exit
Exit_return(code) ==
    /\ pc' = "returned"
    /\ exit_code' = exit_code

\* axtask::exit(code as _): does not return.  The codes of ExitCodes lie in
\* the range of i32, on which the cast keeps the value.
Exit(code) ==
    /\ pc' = "exited"
    /\ exit_code' = <<code>>

\* "reason" is a local of one loop iteration: it is gone when the loop goes
\* round, and stays as it is where the task ends.
EndOfIteration(next_pc) == IF next_pc = "loop" THEN NoReason ELSE reason

\* the Syscall arm with the gateway's result dropped
HandleSyscall_ignore ==
    /\ pc = "match" /\ reason.kind = "Syscall"
    /\ gwCalls' = gwCalls + 1
    /\ pc' = "loop"
    /\ reason' = NoReason
    /\ UNCHANGED <<uspace, uspace_root, page_table_root, ustack_top, ustack_vaddr,
                   stack_pages, i, ptmod, aligned_uctx, exit_code, prog, arch, upc,
                   entered, mapLog, unmapLog, sysTraps, events>>
    /\ UNCHANGED kvars

\* ReturnReason::Syscall
HandleSyscall ==
    /\ pc = "match" /\ reason.kind = "Syscall"
    /\ gwCalls' = gwCalls + 1
    /\ LET r == handle_syscall(aligned_uctx) IN
          IF r.some
            THEN /\ Exit(r.code)
                 /\ events' = Log(<<"gateway", r.code>>) \o
                                 (IF prog = "payload" THEN <<<<"exit", r.code>>>> ELSE <<>>)
            ELSE /\ pc' = "loop"
                 /\ UNCHANGED <<exit_code, events>>
    /\ reason' = EndOfIteration(pc')
    /\ UNCHANGED <<uspace, uspace_root, page_table_root, ustack_top, ustack_vaddr,
                   stack_pages, i, ptmod, aligned_uctx, prog, arch, upc, entered,
                   mapLog, unmapLog, sysTraps>>
    /\ UNCHANGED kvars

\* the PageFault arm with the result of map dropped instead of unwrapped
HandlePageFault_ignore ==
    /\ pc = "match" /\ reason.kind = "PageFault"
    /\ IF InStackRange(reason.vaddr)
         THEN LET aligned_va == align_down_4k(reason.vaddr)
                  idx == page_idx(aligned_va)
              IN  IF idx < 0 \/ idx >= Len(stack_pages)
                    THEN \* stack_pages.phys_pages[page_idx] is out of bounds
                         /\ pc' = "panicked"
                         /\ UNCHANGED <<uspace, mapLog, exit_code, events, ptmod>>
                    ELSE \E alloc \in BOOLEAN :
                         LET paddr == stack_pages[idx + 1]
                             ok == MapOk(uspace, aligned_va, alloc)
                         IN  /\ uspace' = MapPt(uspace, aligned_va, paddr, MapFlags, alloc)
                             /\ mapLog' = Append(mapLog,
                                    [fault |-> reason.vaddr, va |-> aligned_va,
                                     paddr |-> paddr, flags |-> MapFlags, ok |-> ok])
                             /\ events' = Log(<<"map", aligned_va, paddr, ok>>)
                             \* let _ = ... in place of .unwrap()
                             /\ pc' = "loop"
                             /\ ptmod' = FALSE
                             /\ UNCHANGED exit_code
         ELSE /\ Exit(-1)
              /\ events' = Log(<<"exit", -1>>)
              /\ UNCHANGED <<uspace, mapLog, ptmod>>
    /\ reason' = EndOfIteration(pc')
    /\ UNCHANGED <<uspace_root, page_table_root, ustack_top, ustack_vaddr, stack_pages,
                   i, aligned_uctx, prog, arch, upc, entered, unmapLog,
                   sysTraps, gwCalls>>
    /\ UNCHANGED kvars

\* ReturnReason::PageFault(vaddr, _flags)
HandlePageFault ==
    /\ pc = "match" /\ reason.kind = "PageFault"
    /\ IF InStackRange(reason.vaddr)
         THEN LET aligned_va == align_down_4k(reason.vaddr)
                  idx == page_idx(aligned_va)
              IN  IF idx < 0 \/ idx >= Len(stack_pages)
                    THEN \* stack_pages.phys_pages[page_idx] is out of bounds
                         /\ pc' = "panicked"
                         /\ UNCHANGED <<uspace, mapLog, exit_code, events, ptmod>>
                    ELSE \E alloc \in BOOLEAN :
                         LET paddr == stack_pages[idx + 1]
                             ok == MapOk(uspace, aligned_va, alloc)
                         IN  /\ uspace' = MapPt(uspace, aligned_va, paddr, MapFlags, alloc)
                             /\ mapLog' = Append(mapLog,
                                    [fault |-> reason.vaddr, va |-> aligned_va,
                                     paddr |-> paddr, flags |-> MapFlags, ok |-> ok])
                             /\ events' = Log(<<"map", aligned_va, paddr, ok>>)
                             \* .unwrap()
                             /\ pc' = IF ok THEN "loop" ELSE "panicked"
                             \* The handle is a temporary of the map statement,
                             \* dropped where the statement ends; a panic inside
                             \* the statement drops it if it unwinds and leaves it
                             \* held if it aborts.
                             /\ ptmod' \in (IF ok THEN {FALSE} ELSE BOOLEAN)
                             /\ UNCHANGED exit_code
         ELSE /\ Exit(-1)
              /\ events' = Log(<<"exit", -1>>)
              /\ UNCHANGED <<uspace, mapLog, ptmod>>
    /\ reason' = EndOfIteration(pc')
    /\ UNCHANGED <<uspace_root, page_table_root, ustack_top, ustack_vaddr, stack_pages,
                   i, aligned_uctx, prog, arch, upc, entered, unmapLog,
                   sysTraps, gwCalls>>
    /\ UNCHANGED kvars

\* the catch-all arm that logs and goes round the loop
HandleOther_resume ==
    /\ pc = "match" /\ reason.kind \notin {"Syscall", "PageFault"}
    /\ pc' = "loop"
    /\ reason' = NoReason
    /\ UNCHANGED <<uspace, uspace_root, page_table_root, ustack_top, ustack_vaddr,
                   stack_pages, i, ptmod, aligned_uctx, exit_code, prog, arch, upc,
                   entered, mapLog, unmapLog, sysTraps, gwCalls, events>>
    /\ UNCHANGED kvars

\* any other ReturnReason
HandleOther ==
    /\ pc = "match" /\ reason.kind \notin {"Syscall", "PageFault"}
    /\ Exit(-1)
    /\ events' = Log(<<"exit", -1>>)
    /\ UNCHANGED <<uspace, uspace_root, page_table_root, ustack_top, ustack_vaddr,
                   stack_pages, i, ptmod, reason, aligned_uctx, prog, arch, upc, entered,
                   mapLog, unmapLog, sysTraps, gwCalls>>
    /\ UNCHANGED kvars

Next ==
    \/ SpawnUserTask
    \/ TaskBegin
    \/ UnmapStep
    \/ UnmapEnd
    \/ Run
    \/ UserFault
    \/ UserSyscall
    \/ UserOther
    \/ PayloadStore
    \/ PayloadExit
    \/ HandleSyscall
    \/ HandlePageFault
    \/ HandleOther

Spec == Init /\ [][Next]_vars

\* ------------------------------------------------------------ properties
\* Pages of [ustack_vaddr, ustack_top), written out from the two bounds.
StackPages == {p \in Pages : ustack_vaddr <= p * PAGE_SIZE_4K /\ p * PAGE_SIZE_4K < ustack_top}

OutOfRange(a) == a < ustack_vaddr \/ a >= ustack_top

OkMaps == {n \in DOMAIN mapLog : mapLog[n].ok}

\* C1 (range fidelity): a page fault at an address a with a < base or
\* a >= top makes the task exit with code -1 in that step, without a map call
\* and without a change of the page table; and no map call ever made was made
\* for a fault address outside [base, top).
C1_RangeFidelity ==
    /\ [](\A n \in DOMAIN mapLog : ~OutOfRange(mapLog[n].fault))
    /\ [][(pc = "match" /\ reason.kind = "PageFault" /\ OutOfRange(reason.vaddr))
            => (pc' = "exited" /\ exit_code' = <<-1>> /\ mapLog' = mapLog /\ uspace' = uspace)]_vars

\* The task has exited with -1 on a fault at exactly the top of the range.
C1_Witness ==
    /\ pc = "exited" /\ exit_code = <<-1>>
    /\ reason.kind = "PageFault" /\ reason.vaddr = ustack_top
    /\ mapLog = <<>>

\* C2 (index correctness): once user mode has been entered, an entry present
\* for the page at base + k*4096 maps it to frame k of the pool; and every
\* successful map was made for a fault inside the page it maps, with the frame
\* the pool holds at that page's index.
C2_IndexCorrectness ==
    /\ entered =>
          \A k \in 0 .. (((ustack_top - ustack_vaddr) \div PAGE_SIZE_4K) - 1) :
             LET e == uspace[PageOf(ustack_vaddr + k * PAGE_SIZE_4K)] IN
                e.present => (k < Len(stack_pages) /\ e.paddr = stack_pages[k + 1])
    /\ \A n \in OkMaps :
          \E k \in 0 .. (Len(stack_pages) - 1) :
             /\ mapLog[n].va = ustack_vaddr + k * PAGE_SIZE_4K
             /\ mapLog[n].va <= mapLog[n].fault
             /\ mapLog[n].fault < mapLog[n].va + PAGE_SIZE_4K
             /\ mapLog[n].paddr = stack_pages[k + 1]

\* The second page of a two-page range, provisioned upstream with another
\* frame, has been installed from the pool on a fault at its last byte.
C2_Witness ==
    /\ Len(stack_pages) = 2 /\ ustack_top - ustack_vaddr = 2 * PAGE_SIZE_4K
    /\ \E n \in OkMaps :
          /\ mapLog[n].fault = ustack_top - 1
          /\ mapLog[n].paddr = stack_pages[2]
          /\ uspace[PageOf(ustack_top - 1)].paddr = stack_pages[2]
    /\ \E m \in DOMAIN unmapLog : unmapLog[m].ok /\ unmapLog[m].va = ustack_top - PAGE_SIZE_4K

\* C3 (pre-unmap): after the pre-unmap pass and before the first run() of the
\* user context, no page of [base, top) has a translation entry.
C3_PreUnmap ==
    (pc = "loop" /\ ~entered) => \A p \in StackPages : ~uspace[p].present

\* The pass is over, user mode not entered, and both pages of a two-page
\* range had entries that the pass removed.
C3_Witness ==
    /\ pc = "loop" /\ ~entered
    /\ Len(unmapLog) = 2 /\ unmapLog[1].ok /\ unmapLog[2].ok

\* Pages for which the fault handler has succeeded: the pages of the fault
\* addresses of the successful map calls.
HandledPages == {PageOf(mapLog[n].fault) : n \in OkMaps}

\* C4 as stated (idempotent mapping): a page fault is never dispatched for a
\* page for which the handler has already succeeded, and map is called at most
\* once per page.
C4_NoSecondFault ==
    /\ (pc = "match" /\ reason.kind = "PageFault") => PageOf(reason.vaddr) \notin HandledPages
    /\ \A m, n \in DOMAIN mapLog : m # n => mapLog[m].va # mapLog[n].va

\* C4 amended: once the handler has succeeded for a page, no read or write of
\* that page from user mode faults; a fault dispatched for such a page is an
\* instruction fetch; map succeeds at most once per page, and a second map
\* call for a page is a failed one.
C4_IdempotentReadWrite ==
    /\ \A n \in DOMAIN mapLog :
          mapLog[n].ok =>
             \A o \in Offsets, k \in {READ, WRITE} :
                ~Faults(uspace, PageOf(mapLog[n].fault) * PAGE_SIZE_4K + o, k)
    /\ (pc = "match" /\ reason.kind = "PageFault" /\ PageOf(reason.vaddr) \in HandledPages)
          => reason.flags = EXECUTE
    /\ \A m, n \in DOMAIN mapLog :
          (m < n /\ mapLog[m].va = mapLog[n].va) => ~mapLog[n].ok

\* The payload's store has faulted once, the handler has mapped its page,
\* and the store, executed again, has completed without a fault.
C4_Witness ==
    /\ prog = "payload" /\ pc = "user" /\ upc = "exit"
    /\ Len(mapLog) = 1 /\ mapLog[1].ok
    /\ PageOf(aligned_uctx.sp) \in HandledPages

\* C5 as stated: a task whose pool length differs from the page count of its
\* range never reaches user mode or the fault handler.
C5_PoolValidated ==
    pc \in {"user", "match"}
       => Len(stack_pages) = (ustack_top - ustack_vaddr) \div PAGE_SIZE_4K

\* C6 as stated: the task body ends in no other way than the exit call
\* (checked for the pools that have one frame per page of the range).
C6_OnlyExit ==
    Len(stack_pages) = (ustack_top - ustack_vaddr) \div PAGE_SIZE_4K
       => pc \in {"call", "ready", "unmap", "loop", "user", "match", "exited"}

Running(p) == p \in {"call", "ready", "unmap", "loop", "user", "match"}

\* C6 amended: the task body never returns; it ends only from the dispatch of
\* a trap, either through the exit call or by the panic of the fault handler
\* on an in-range fault whose map call failed or whose page index has no
\* frame in the pool; no result of unmap ends it.
C6_ExitOrPanic ==
    [][(Running(pc) /\ ~Running(pc'))
         => /\ pc = "match"
            /\ \/ pc' = "exited" /\ Len(exit_code') = 1
               \/ /\ pc' = "panicked"
                  /\ reason.kind = "PageFault" /\ ~OutOfRange(reason.vaddr)
                  /\ \/ /\ Len(mapLog') = Len(mapLog) + 1
                        /\ ~mapLog'[Len(mapLog')].ok
                     \/ /\ mapLog' = mapLog
                        /\ PageOf(reason.vaddr) - PageOf(ustack_vaddr) >= Len(stack_pages)]_vars

\* The task has ended by the exit call after a pre-unmap pass in which an
\* unmap failed and a fault that the handler served.
C6_Witness ==
    /\ pc = "exited"
    /\ \E m \in DOMAIN unmapLog : ~unmapLog[m].ok
    /\ OkMaps # {}

\* C7: every Syscall trap is followed by exactly one call of the gateway with
\* the user context; on None the loop goes round to run() with no exit; on
\* Some(code) the task exits with that code, and an exited task takes no
\* further step, so the user context is not resumed again.
C7_SyscallDispatch ==
    /\ [](gwCalls = sysTraps - (IF pc = "match" /\ reason.kind = "Syscall" THEN 1 ELSE 0))
    /\ [][(pc = "match" /\ reason.kind = "Syscall")
            => /\ gwCalls' = gwCalls + 1
               /\ LET r == handle_syscall(aligned_uctx) IN
                     IF r.some
                       THEN pc' = "exited" /\ exit_code' = <<r.code>>
                       ELSE pc' = "loop" /\ exit_code' = <<>>]_vars
    /\ [][pc = "exited" => (pc' = "exited" /\ exit_code' = exit_code)]_vars
    /\ [](pc = "exited" => ~ENABLED Run)

\* A first system call for which the gateway returned None was followed by
\* a resume, and a second one, exit(0), has ended the task with code 0.
C7_Witness ==
    /\ pc = "exited" /\ exit_code = <<0>>
    /\ reason.kind = "Syscall"
    /\ sysTraps = 2 /\ gwCalls = 2

\* C8: a trap that is neither Syscall nor PageFault makes the task exit with
\* code -1 in that step, with no gateway call and no map or unmap.
C8_UnexpectedTrap ==
    [][(pc = "match" /\ reason.kind \notin {"Syscall", "PageFault"})
         => /\ pc' = "exited" /\ exit_code' = <<-1>>
            /\ gwCalls' = gwCalls
            /\ mapLog' = mapLog /\ unmapLog' = unmapLog /\ uspace' = uspace]_vars

\* The task has exited with -1 on an Other trap.
C8_Witness ==
    /\ pc = "exited" /\ exit_code = <<-1>>
    /\ reason.kind = "Other"

\* C9: a fault handling that succeeds (the loop goes round) installs exactly
\* one entry, absent before: the page containing the fault address, mapped to
\* the pool frame of its index with READ, WRITE and USER; every other entry
\* of the page table is unchanged.
C9_OneNewEntry ==
    [][(pc = "match" /\ reason.kind = "PageFault" /\ pc' = "loop")
         => LET pg == reason.vaddr \div PAGE_SIZE_4K
                k == pg - (ustack_vaddr \div PAGE_SIZE_4K)
            IN  /\ ~uspace[pg].present
                /\ k >= 0 /\ k < Len(stack_pages)
                /\ uspace' = [uspace EXCEPT ![pg] =
                                 [present |-> TRUE, paddr |-> stack_pages[k + 1],
                                  flags |-> {"READ", "WRITE", "USER"}]]]_vars

\* A fault at the last byte of a range page has been served while page 0,
\* outside the range, keeps the entry it had.
C9_Witness ==
    /\ pc = "loop"
    /\ \E n \in OkMaps : n = Len(mapLog) /\ mapLog[n].fault # mapLog[n].va
    /\ uspace[0].present /\ uspace[0].paddr = StaleFrame

IsPrefix(s, t) == Len(s) <= Len(t) /\ \A n \in DOMAIN s : s[n] = t[n]

\* The event order of the payload run on a range of N pages.
PayloadTrace ==
    LET a == ustack_top - PayloadDec[arch]
        N == (ustack_top - ustack_vaddr) \div PAGE_SIZE_4K
    IN  << <<"run">>, <<"fault", a>>,
           <<"map", ustack_top - PAGE_SIZE_4K, stack_pages[N], TRUE>>,
           <<"run">>, <<"syscall">>, <<"gateway", 0>>, <<"exit", 0>> >>

\* C10: with a pool of one frame per page and a map call that does not fail,
\* the task running the payload produces, in this order: resume, one page
\* fault in the top-most page, one map of that page to the last pool frame,
\* resume, one Syscall trap, gateway result 0, exit(0); it can always take its
\* next step until it has exited, and exactly one mapping is installed.
C10_PayloadRun ==
    (/\ prog = "payload"
     /\ Len(stack_pages) = (ustack_top - ustack_vaddr) \div PAGE_SIZE_4K
     /\ \A n \in DOMAIN mapLog : mapLog[n].ok)
       => /\ IsPrefix(events, PayloadTrace)
          /\ pc # "panicked"
          /\ pc # "exited" => ENABLED Next
          /\ pc = "exited" => /\ events = PayloadTrace
                              /\ exit_code = <<0>>
                              /\ Len(mapLog) = 1
                              /\ Cardinality({p \in StackPages : uspace[p].present}) = 1

\* The payload has run to exit(0) on a two-page range whose pages were
\* provisioned upstream.
C10_Witness ==
    /\ prog = "payload" /\ pc = "exited" /\ exit_code = <<0>>
    /\ ustack_top - ustack_vaddr = 2 * PAGE_SIZE_4K /\ Len(stack_pages) = 2
    /\ events = PayloadTrace
    /\ Len(unmapLog) = 2 /\ unmapLog[1].ok /\ unmapLog[2].ok

\* C11: from the moment the task is handed to the scheduler the root recorded
\* on it is the root of the address space it was spawned with, and neither
\* changes afterwards, so that is the root in force whenever the body runs.
C11_RootFixed ==
    /\ [](pc # "call" => page_table_root = uspace_root)
    /\ [][pc # "call" => (page_table_root' = page_table_root /\ uspace_root' = uspace_root)]_vars

\* The body is back in user mode after a served fault, under root "rootB".
C11_Witness ==
    /\ pc = "user" /\ OkMaps # {}
    /\ uspace_root = "rootB" /\ page_table_root = "rootB"

\* C12 (alignment): from its construction on, and so at every resume, the
\* user context lies at an address that is a multiple of 16, whatever the
\* kernel stack position it was placed under.
C12_Aligned16 ==
    pc \in {"loop", "user", "match", "exited", "panicked"} => uctx_addr % 16 = 0

\* The context was placed under a stack position that is not a multiple of
\* 16 and the task has resumed it a second time.
C12_Witness ==
    /\ pc = "user" /\ OkMaps # {}
    /\ kstack_sp % 16 # 0
    /\ uctx_addr % 16 = 0 /\ uctx_addr > 0

\* C13: a failed map for an in-range fault is a hard failure of the task: it
\* is the last thing the task does, the task has panicked, takes no further
\* step (the user context is not resumed) and has not called exit.
C13_MapFailureIsHard ==
    \A n \in DOMAIN mapLog :
       ~mapLog[n].ok =>
          /\ n = Len(mapLog)
          /\ ~OutOfRange(mapLog[n].fault)
          /\ pc = "panicked" /\ exit_code = <<>>
          /\ ~ENABLED Next

\* A map has failed for want of a page-table frame: the entry is still
\* absent and the task has panicked.
C13_Witness ==
    /\ pc = "panicked" /\ mapLog # <<>>
    /\ ~mapLog[Len(mapLog)].ok
    /\ ~uspace[PageOf(mapLog[Len(mapLog)].va)].present

\* C14: the pre-unmap pass calls unmap once for every page base + k*4096,
\* 0 <= k < (top - base)/4096, in ascending order, whatever the earlier calls
\* returned; no result of unmap ends the pass or the task, and after the pass
\* the task enters user mode.
C14_UnmapPassTolerant ==
    LET N == (ustack_top - ustack_vaddr) \div PAGE_SIZE_4K IN
    /\ \A n \in DOMAIN unmapLog : unmapLog[n].va = ustack_vaddr + (n - 1) * PAGE_SIZE_4K
    /\ pc \in {"call", "ready"} => unmapLog = <<>>
    /\ pc = "unmap" => /\ Len(unmapLog) = i /\ i <= N
                       /\ ENABLED (UnmapStep \/ UnmapEnd)
    /\ pc \notin {"call", "ready", "unmap"} => Len(unmapLog) = N
    /\ (pc = "loop" /\ ~entered) => ENABLED Run

\* User mode has been entered after a pass over two pages whose first unmap
\* failed.
C14_Witness ==
    /\ pc = "user"
    /\ Len(unmapLog) = 2 /\ ~unmapLog[1].ok

\* C15: when base and top are 4K-aligned, top > base and the pool has
\* (top - base)/4096 frames, the page index computed for a dispatched fault
\* at an address in [base, top) lies in [0, len(pool)), and the task never
\* panics on the pool lookup: a panic follows a failed map call only.
C15_IndexInBounds ==
    (/\ ustack_vaddr % PAGE_SIZE_4K = 0 /\ ustack_top % PAGE_SIZE_4K = 0
     /\ ustack_top > ustack_vaddr
     /\ Len(stack_pages) = (ustack_top - ustack_vaddr) \div PAGE_SIZE_4K)
       => /\ (/\ pc = "match" /\ reason.kind = "PageFault"
              /\ ustack_vaddr <= reason.vaddr /\ reason.vaddr < ustack_top)
                => LET idx == page_idx(align_down_4k(reason.vaddr)) IN
                      0 <= idx /\ idx < Len(stack_pages)
          /\ pc = "panicked" => (mapLog # <<>> /\ ~mapLog[Len(mapLog)].ok)

\* A fault at the last byte of a range with as many frames as pages has been
\* dispatched: its index is the last of the pool.
C15_Witness ==
    /\ pc = "match" /\ reason.kind = "PageFault"
    /\ reason.vaddr = ustack_top - 1
    /\ Len(stack_pages) = (ustack_top - ustack_vaddr) \div PAGE_SIZE_4K
    /\ page_idx(align_down_4k(reason.vaddr)) = Len(stack_pages) - 1
    /\ Len(stack_pages) >= 2

C17_OnlyRangePages ==
    /\ [](\A n \in DOMAIN unmapLog :
             /\ unmapLog[n].va % PAGE_SIZE_4K = 0
             /\ ustack_vaddr <= unmapLog[n].va /\ unmapLog[n].va < ustack_top)
    /\ [](\A n \in DOMAIN mapLog :
             /\ mapLog[n].va % PAGE_SIZE_4K = 0
             /\ ustack_vaddr <= mapLog[n].va /\ mapLog[n].va < ustack_top)
    /\ [][\A p \in Pages :
             (p * PAGE_SIZE_4K < ustack_vaddr \/ p * PAGE_SIZE_4K >= ustack_top)
                => uspace'[p] = uspace[p]]_vars

\* The task has exited through a system call after an unmap and a map that
\* both took effect, with the pages below and at the top of the range still
\* mapped as upstream left them.
C17_Witness ==
    /\ pc = "exited" /\ reason.kind = "Syscall"
    /\ \E n \in DOMAIN unmapLog : unmapLog[n].ok
    /\ OkMaps # {}
    /\ uspace[0] = Entry(StaleFrame, UpstreamFlags)
    /\ uspace[PageOf(ustack_top)] = Entry(StaleFrame, UpstreamFlags)

\* C18: exit has been called exactly when the task has exited, and its code
\* is either the code the gateway returned for the Syscall trap just handled,
\* or -1 after a page fault outside [base, top) or after a trap that is
\* neither Syscall nor PageFault; no page fault inside [base, top) ends in
\* exit.
C18_ExitCodes ==
    /\ (exit_code # <<>>) <=> (pc = "exited")
    /\ pc = "exited" =>
          \/ /\ reason.kind = "Syscall"
             /\ handle_syscall(aligned_uctx).some
             /\ exit_code = <<handle_syscall(aligned_uctx).code>>
          \/ /\ reason.kind = "PageFault"
             /\ (reason.vaddr < ustack_vaddr \/ reason.vaddr >= ustack_top)
             /\ exit_code = <<-1>>
          \/ /\ reason.kind \notin {"Syscall", "PageFault"}
             /\ exit_code = <<-1>>

\* A fault inside the range was served and the task went on; a later fault
\* one byte below the base has ended it with -1.
C18_Witness ==
    /\ pc = "exited" /\ exit_code = <<-1>>
    /\ reason.kind = "PageFault" /\ reason.vaddr = ustack_vaddr - 1
    /\ \E n \in OkMaps : mapLog[n].fault = ustack_vaddr

\* C19: once user mode has been entered, no step issues an unmap and no
\* range page that has an entry loses it; and the number of successful map
\* calls never exceeds the number of pages of the range.
C19_MappedSetGrows ==
    /\ [][entered =>
            /\ unmapLog' = unmapLog
            /\ \A p \in StackPages : uspace[p].present => uspace'[p].present]_vars
    /\ [](Cardinality(OkMaps) <= (ustack_top - ustack_vaddr) \div PAGE_SIZE_4K)

\* Both pages of a two-page range have been installed, one after the other,
\* and the task is back in user mode.
C19_Witness ==
    /\ pc = "user"
    /\ ustack_top - ustack_vaddr = 2 * PAGE_SIZE_4K
    /\ Cardinality(OkMaps) = 2
    /\ \A p \in StackPages : uspace[p].present

====
